---- MODULE Spec2Model ----
(***************************************************************************)
(* A model of the cube-grid rules engine (src/unnamed/part_001): the grid  *)
(* of cubes, the six mapping levels of update(), the rules engine of       *)
(* level 5, the on->off trace bookkeeping, the ripple frame offset, and    *)
(* the handlers that drive them (resize, click/initAudio, keydown, draw).  *)
(*                                                                         *)
(* Numbers.  The program computes with JavaScript doubles in [0,1].  The   *)
(* model holds every such quantity as an integer count of thousandths      *)
(* (ONE == 1000 is 1.0), so 0.125 is 125 and 0.01 is 10.  A comparison of  *)
(* two quantities is exact.  A product or a weighted sum that the program  *)
(* stores back into a cube (lerp, decay) is rounded to the nearest         *)
(* representable value, ties to even, as a floating-point unit rounds it.  *)
(***************************************************************************)
EXTENDS Integers, Sequences, FiniteSets, TLC

VARIABLES
    audioCtx,        \* TRUE once `audioCtx = new AudioContext()` has run
    initPc,          \* position of the one async initAudio() call
    isRunning,
    isPaused,
    currentLevel,
    frameOffset,
    cols,
    rows,
    cubes,           \* [0..rows*cols-1 -> Cube]
    rules,           \* the rules array, in its current order
    loops,           \* number of requestAnimationFrame chains started by loop()
    now,             \* performance.now() of the latest animation frame
    frameData,       \* normalizedData as the latest update() filled it (<<>> before any)
    normalizedData,  \* normalizedData as the latest update() left it
    reads,           \* the indices the latest update() used on normalizedData
    views,           \* per cube, the array its rule conditions got in the latest update()
    matched,         \* per cube, the position of the rule applied in the latest update(), or 0
    counts,          \* per cube, the `neighbors` the latest update() computed for it (0 below level 5)
    frames,          \* number of update() calls that got past the guard
    pre,             \* what the latest such update(), or the latest resize(),
                     \* found: per cube its value, state, prevState and
                     \* traceTime, the frameOffset and the level
    justUpdated,     \* TRUE while nothing has run since the latest such update()
    justResized,     \* TRUE while nothing has run since the latest resize()
    lastKey,         \* the key of the latest step if it was a logged key press, else ""
    clickedIn,       \* the positions of initAudio() at which a logged click arrived
    inputs           \* number of key presses and window resizes handled since Init

vars == <<audioCtx, initPc, isRunning, isPaused, currentLevel, frameOffset,
          cols, rows, cubes, rules, loops, now, frameData, normalizedData,
          reads, views, matched, counts, frames, pre, justUpdated,
          justResized, lastKey, clickedIn, inputs>>

-----------------------------------------------------------------------------
(* Bounds of the model *)

\* animation frames explored
MaxFrames == 2

\* animation frames explored while the signal is held
MaxHeldFrames == 48

\* key presses and window resizes explored
MaxInputs == 1

\* analyser.frequencyBinCount, the length of dataArray and of normalizedData:
\* fftSize / 2 = 1024 in the program, scaled down here
frequencyBinCount == 2

-----------------------------------------------------------------------------
(* Program constants *)

ONE == 10 * 10 * 10

CELL_SIZE == 24

PARAMS ==
    [level0 |-> [threshold |-> 100],
     level1 |-> [opacityGain |-> 8 * ONE],
     level2 |-> [smoothing |-> 125, threshold |-> 100],
     level3 |-> [probabilityScale |-> 500],
     level4 |-> [threshold |-> 100],
     level5 |-> [activeThreshold |-> 10, inactiveThreshold |-> 10,
                 neighborLimit |-> 2500],
     level6 |-> [loudThreshold |-> 700, quietThreshold |-> 10,
                 flipMin |-> 400, flipMax |-> 600, flipChance |-> 900,
                 rippleSpeed |-> 1]]

\* the literal of `frameOffset = (frameOffset + rippleSpeed) % 1024`: the
\* program's frequencyBinCount written out, scaled with it
RIPPLE_WRAP == frequencyBinCount

\* applyAction's decay factor 0.9 and floor 0.05
DECAY_FACTOR == 900
DECAY_FLOOR == 50

\* a read of a typed array outside its range: `undefined`
Undefined == -1

-----------------------------------------------------------------------------
(* Inputs *)

\* normalized samples: silence, exactly the 0.1 thresholds of levels 0, 2
\* and 4 (matching no rule), the flip band of level 5, and loud
Samples == {0, 500, 900}

\* the buffers update() may compute: every sample is min(raw * factor, 1.0)
\* of a magnitude, so in [0,1]; the buffers explored repeat a pair of samples
Signals ==
    { [i \in 0..(frequencyBinCount - 1) |-> p[i % 2]] : p \in [0..1 -> Samples] }

\* values Math.random() may return, in [0,1)
RandomDraws == {0, 250, 500, 750, 950}

\* window.innerWidth / innerHeight at a resize
Viewports == { <<30, 30>>, <<75, 30>> }

Keys == {"0", "1", "2", "3", "4", "5", "6", "ArrowRight", "ArrowLeft",
         "r", "Space"}

-----------------------------------------------------------------------------
(* Helpers *)

\* n / d rounded to the nearest integer, ties to even (n >= 0, d > 0)
RoundDiv(n, d) ==
    LET q == n \div d
        r == n % d
    IN  IF 2 * r < d THEN q
        ELSE IF 2 * r > d THEN q + 1
        ELSE IF q % 2 = 0 THEN q ELSE q + 1

lerp(start, end, amt) == RoundDiv((ONE - amt) * start + amt * end, ONE)

\* data[idx] of a typed array
At(data, idx) == IF idx \in DOMAIN data THEN data[idx] ELSE Undefined

\* a > b and a < b of JavaScript: false when either side is undefined
Gt(a, b) == a # Undefined /\ b # Undefined /\ a > b
Lt(a, b) == a # Undefined /\ b # Undefined /\ a < b

Length(data) == Cardinality(DOMAIN data)

Cube(index, x, y, c, r, level) ==
    [index |-> index, x |-> x, y |-> y, c |-> c, r |-> r, level |-> level,
     value |-> 0, state |-> FALSE, prevState |-> FALSE, prevValue |-> 0,
     traceTime |-> 0]

defaultRules ==
    << [condition |-> "loud", action |-> "on"],
       [condition |-> "quiet", action |-> "off"],
       [condition |-> "flip", action |-> "flip"] >>

\* a variant that lays the grid out column by column
initGridColumnMajor(nc, nr, level) ==
    [i \in 0..(nr * nc - 1) |->
        Cube(i, (i \div nr) * CELL_SIZE, (i % nr) * CELL_SIZE,
             i \div nr, i % nr, level)]

initGrid(nc, nr, level) ==
    [i \in 0..(nr * nc - 1) |->
        Cube(i, (i % nc) * CELL_SIZE, (i \div nc) * CELL_SIZE,
             i % nc, i \div nc, level)]

-----------------------------------------------------------------------------
\* the page once its script has run and the window's load event has called
\* resize()
Init ==
    /\ audioCtx = FALSE
    /\ initPc = "idle"
    /\ isRunning = FALSE
    /\ isPaused = FALSE
    /\ currentLevel = 0
    /\ frameOffset = 0
    /\ \E vp \in Viewports :
        /\ cols = vp[1] \div CELL_SIZE
        /\ rows = vp[2] \div CELL_SIZE
        /\ cubes = initGrid(vp[1] \div CELL_SIZE, vp[2] \div CELL_SIZE, 0)
    /\ rules = defaultRules
    /\ loops = 0
    /\ now = 0
    /\ frameData = << >>
    /\ normalizedData = << >>
    /\ reads = {}
    /\ views = << >>
    /\ matched = << >>
    /\ counts = << >>
    /\ frames = 0
    /\ pre = [cubes |-> << >>, frameOffset |-> 0, level |-> 0]
    /\ justUpdated = FALSE
    /\ justResized = TRUE
    /\ lastKey = ""
    /\ clickedIn = {}
    /\ inputs = 0

-----------------------------------------------------------------------------
(* Core logic: getNeighbors, the rules, applyAction *)

dirs == { <<0, -1>>, <<0, 1>>, <<-1, 0>>, <<1, 0>> }

\* a variant without the column check: a neighbour index may fall in the
\* next or the previous row
getNeighborsNoColumnCheck(cs, nc, nr, cube) ==
    Cardinality({ dir \in dirs :
        LET ncol == cube.c + dir[1]
            nrow == cube.r + dir[2]
            idx  == nrow * nc + ncol
        IN  /\ nrow >= 0 /\ nrow < nr
            /\ idx \in DOMAIN cs
            /\ cs[idx].state })

\* a variant that counts the neighbours that were on when the frame began
getNeighborsPrevState(cs, nc, nr, cube) ==
    Cardinality({ dir \in dirs :
        LET ncol == cube.c + dir[1]
            nrow == cube.r + dir[2]
            idx  == nrow * nc + ncol
        IN  /\ ncol >= 0 /\ ncol < nc /\ nrow >= 0 /\ nrow < nr
            /\ idx \in DOMAIN cs
            /\ cs[idx].prevState })

getNeighbors(cs, nc, nr, cube) ==
    Cardinality({ dir \in dirs :
        LET ncol == cube.c + dir[1]
            nrow == cube.r + dir[2]
            idx  == nrow * nc + ncol
        IN  /\ ncol >= 0 /\ ncol < nc /\ nrow >= 0 /\ nrow < nr
            /\ idx \in DOMAIN cs
            /\ cs[idx].state })

\* a variant whose flip band has no upper end
conditionFlipNoMax(r, c, d, neighbors, u) ==
    LET own == At(d, c.index % Length(d))
    IN  CASE r.condition = "loud"  -> Gt(own, PARAMS.level6.loudThreshold)
          [] r.condition = "quiet" -> Lt(own, PARAMS.level6.quietThreshold)
          [] r.condition = "flip"  ->
                /\ Gt(own, PARAMS.level6.flipMin)
                /\ u > PARAMS.level6.flipChance
          [] OTHER -> FALSE

\* r.condition(c, d, neighbors), with u the value random() returns if called
condition(r, c, d, neighbors, u) ==
    LET own == At(d, c.index % Length(d))
    IN  CASE r.condition = "loud"  -> Gt(own, PARAMS.level6.loudThreshold)
          [] r.condition = "quiet" -> Lt(own, PARAMS.level6.quietThreshold)
          [] r.condition = "flip"  ->
                /\ Gt(own, PARAMS.level6.flipMin)
                /\ Lt(own, PARAMS.level6.flipMax)
                /\ u > PARAMS.level6.flipChance
          [] OTHER -> FALSE

\* a variant whose flip switches the cube on
applyActionFlipOn(action, cube, u) ==
    CASE action = "on"      -> [cube EXCEPT !.state = TRUE]
      [] action = "off"     -> [cube EXCEPT !.state = FALSE]
      [] action = "flip"    -> [cube EXCEPT !.state = TRUE]
      [] action = "scatter" -> [cube EXCEPT !.state = (u > 500)]
      [] action = "decay"   ->
            LET v == RoundDiv(cube.value * DECAY_FACTOR, ONE)
            IN  [cube EXCEPT !.value = v,
                             !.state = IF v < DECAY_FLOOR THEN FALSE ELSE @]
      [] OTHER -> cube

\* a variant whose decay switches the cube off whatever its value
applyActionDecayOff(action, cube, u) ==
    CASE action = "on"      -> [cube EXCEPT !.state = TRUE]
      [] action = "off"     -> [cube EXCEPT !.state = FALSE]
      [] action = "flip"    -> [cube EXCEPT !.state = ~cube.state]
      [] action = "scatter" -> [cube EXCEPT !.state = (u > 500)]
      [] action = "decay"   ->
            [cube EXCEPT !.value = RoundDiv(cube.value * DECAY_FACTOR, ONE),
                         !.state = FALSE]
      [] OTHER -> cube

\* applyAction(action, cube), with u the value random() returns if called
applyAction(action, cube, u) ==
    CASE action = "on"      -> [cube EXCEPT !.state = TRUE]
      [] action = "off"     -> [cube EXCEPT !.state = FALSE]
      [] action = "flip"    -> [cube EXCEPT !.state = ~cube.state]
      [] action = "scatter" -> [cube EXCEPT !.state = (u > 500)]
      [] action = "decay"   ->
            LET v == RoundDiv(cube.value * DECAY_FACTOR, ONE)
            IN  [cube EXCEPT !.value = v,
                             !.state = IF v < DECAY_FLOOR THEN FALSE ELSE @]
      [] OTHER -> cube

-----------------------------------------------------------------------------
(* update(): the indices it uses, the per-level mapping, the two passes *)

WrappedIndex(cube, data) == cube.index % Length(data)

RandomIndex(u, data) == (u * Length(data)) \div ONE

\* a variant that adds the frame offset without wrapping
Level5IndexNoWrap(cube, fo, data) == cube.index + fo

Level5Index(cube, fo, data) == (cube.index + fo) % Length(data)

\* the array `d` handed to the conditions of one cube: a copy of
\* normalizedData with the cube's own entry replaced (the loop rebuilds the
\* same copy for every rule)
OverrideView(data, cube, fo) ==
    [data EXCEPT ![cube.index % Length(data)] = At(data, Level5Index(cube, fo, data))]

\* a variant that writes the override into normalizedData itself
BufferAfterViewInPlace(data, cube, fo) == OverrideView(data, cube, fo)

\* normalizedData after a view was built from it: the override is written to
\* the copy, so the buffer is as before
BufferAfterView(data, cube, fo) == data

\* the `for (let r of rules)` loop from rule k on: the outcomes
\* [cube, matched] it may have, matched the position of the rule applied
\* the values a call of random() inside a condition or an action may return
\* ({0} where the code makes no call)
ConditionDraws(r) == IF r.condition = "flip" THEN RandomDraws ELSE {0}
ActionDraws(action) == IF action = "scatter" THEN RandomDraws ELSE {0}

\* a variant with a default action: a cube no rule matches is switched off
RuleLoopDefaultOff(rs, k, cube, d, neighbors) ==
    { [cube |-> [cube EXCEPT !.state = FALSE], matched |-> 0] }

RECURSIVE RuleLoop(_, _, _, _, _)
RuleLoop(rs, k, cube, d, neighbors) ==
    IF k > Len(rs) THEN { [cube |-> cube, matched |-> 0] }
    ELSE UNION { IF condition(rs[k], cube, d, neighbors, u)
                 THEN { [cube |-> applyAction(rs[k].action, cube, v), matched |-> k] :
                            v \in ActionDraws(rs[k].action) }
                 ELSE RuleLoop(rs, k + 1, cube, d, neighbors)
                 : u \in ConditionDraws(rs[k]) }

\* a variant in which a cube that is on stays on
Level0Latched(cube, dataVal) ==
    [cube EXCEPT !.state = cube.state \/ Gt(dataVal, PARAMS.level0.threshold),
                 !.value = dataVal]

Level0(cube, dataVal) ==
    [cube EXCEPT !.state = Gt(dataVal, PARAMS.level0.threshold),
                 !.value = dataVal]

\* a variant that switches a cube on only for a nonzero sample
Level1OnIfSignal(cube, dataVal) ==
    [cube EXCEPT !.value = dataVal, !.state = Gt(dataVal, 0)]

Level1(cube, dataVal) ==
    [cube EXCEPT !.value = dataVal, !.state = TRUE]

\* a variant that compares the raw sample with the threshold
Level2RawThreshold(cube, dataVal) ==
    [cube EXCEPT !.value = lerp(cube.value, dataVal, PARAMS.level2.smoothing),
                 !.state = Gt(dataVal, PARAMS.level2.threshold)]

\* a variant that restarts the smoothing from 0 in every frame
Level2FromZero(cube, dataVal) ==
    LET v == lerp(0, dataVal, PARAMS.level2.smoothing)
    IN  [cube EXCEPT !.value = v,
                     !.state = Gt(v, PARAMS.level2.threshold)]

Level2(cube, dataVal) ==
    LET v == lerp(cube.value, dataVal, PARAMS.level2.smoothing)
    IN  [cube EXCEPT !.value = v,
                     !.state = Gt(v, PARAMS.level2.threshold)]

\* a variant in which a cube that is on stays on
Level3Latched(cube, dataVal, u) ==
    [cube EXCEPT !.state =
        cube.state \/ (u * ONE < dataVal * PARAMS.level3.probabilityScale)]

Level3(cube, dataVal, u) ==
    [cube EXCEPT !.state = (u * ONE < dataVal * PARAMS.level3.probabilityScale)]

\* a variant that reads the cube's own sample
Level4OwnSample(cube, data, u) ==
    [cube EXCEPT !.state =
        Gt(At(data, WrappedIndex(cube, data)), PARAMS.level4.threshold)]

Level4(cube, data, u) ==
    [cube EXCEPT !.state =
        Gt(At(data, RandomIndex(u, data)), PARAMS.level4.threshold)]

\* a variant that first stores the cube's sample in its value
Level5TakesSample(cube, data, fo, rs, neighbors) ==
    RuleLoop(rs, 1, [cube EXCEPT !.value = At(data, WrappedIndex(cube, data))],
             OverrideView(data, cube, fo), neighbors)

\* a variant that scans the rules from the last to the first
Level5LastFirst(cube, data, fo, rs, neighbors) ==
    { [cube |-> o.cube,
       matched |-> IF o.matched = 0 THEN 0 ELSE Len(rs) + 1 - o.matched] :
        o \in RuleLoop([k \in 1..Len(rs) |-> rs[Len(rs) + 1 - k]], 1, cube,
                       OverrideView(data, cube, fo), neighbors) }

Level5(cube, data, fo, rs, neighbors) ==
    RuleLoop(rs, 1, cube, OverrideView(data, cube, fo), neighbors)

\* a variant that does not save the value
SaveHistorySkipped(cube) == cube

\* `cube.prevValue = cube.value`
SaveHistory(cube) == [cube EXCEPT !.prevValue = cube.value]

\* no view and no rule: what an iteration records at levels 0..4
NoView == << >>

Outcome(cube, rd, data, view, k, neighbors) ==
    [cube |-> cube, rd |-> rd, data |-> data, view |-> view, matched |-> k,
     neighbors |-> neighbors]

\* one iteration of the first cubes.forEach, for cube i of the array cs and
\* the buffer data: the outcomes it may have
MapCube(cs, i, data, level, fo, rs, nc, nr) ==
    LET wi      == WrappedIndex(cs[i], data)
        dataVal == At(data, wi)
        cube    == SaveHistory(cs[i])
    IN  CASE level = 0 -> { Outcome(Level0(cube, dataVal), {wi}, data, NoView, 0, 0) }
          [] level = 1 -> { Outcome(Level1(cube, dataVal), {wi}, data, NoView, 0, 0) }
          [] level = 2 -> { Outcome(Level2(cube, dataVal), {wi}, data, NoView, 0, 0) }
          [] level = 3 ->
                { Outcome(Level3(cube, dataVal, u), {wi}, data, NoView, 0, 0) :
                    u \in RandomDraws }
          [] level = 4 ->
                { Outcome(Level4(cube, data, u), {wi, RandomIndex(u, data)},
                          data, NoView, 0, 0) : u \in RandomDraws }
          [] level = 5 ->
                { Outcome(o.cube, {wi, Level5Index(cube, fo, data)},
                          BufferAfterView(data, cube, fo),
                          OverrideView(data, cube, fo), o.matched,
                          getNeighbors(cs, nc, nr, cube)) :
                    o \in Level5(cube, data, fo, rs, getNeighbors(cs, nc, nr, cube)) }
          [] OTHER -> { Outcome(cube, {wi}, data, NoView, 0, 0) }

\* the state of the first cubes.forEach before its first iteration
PassStart(cs, data) ==
    [cs |-> cs, rd |-> {}, data |-> data,
     views |-> [i \in DOMAIN cs |-> NoView], matched |-> [i \in DOMAIN cs |-> 0],
     counts |-> [i \in DOMAIN cs |-> 0]]

\* the first cubes.forEach from cube k on, run from every state of S
RECURSIVE MappingPass(_, _, _, _, _, _, _)
MappingPass(S, k, level, fo, rs, nc, nr) ==
    IF S = {} \/ k \notin DOMAIN (CHOOSE st \in S : TRUE).cs THEN S
    ELSE MappingPass(
            UNION { { [cs      |-> [st.cs EXCEPT ![k] = o.cube],
                       rd      |-> st.rd \cup o.rd,
                       data    |-> o.data,
                       views   |-> [st.views EXCEPT ![k] = o.view],
                       matched |-> [st.matched EXCEPT ![k] = o.matched],
                       counts  |-> [st.counts EXCEPT ![k] = o.neighbors]] :
                        o \in MapCube(st.cs, k, st.data, level, fo, rs, nc, nr) } :
                    st \in S },
            k + 1, level, fo, rs, nc, nr)

\* a variant that stamps every cube that is off
TraceCubeWhenOff(cube, t) ==
    [cube EXCEPT !.traceTime = IF ~cube.state THEN t ELSE @,
                 !.prevState = cube.state]

\* one iteration of the second cubes.forEach
TraceCube(cube, t) ==
    [cube EXCEPT !.traceTime = IF cube.prevState /\ ~cube.state THEN t ELSE @,
                 !.prevState = cube.state]

\* a variant that stamps the trace but forgets to refresh prevState
TransitionPassStale(cs, t) ==
    [i \in DOMAIN cs |-> [TraceCube(cs[i], t) EXCEPT !.prevState = cs[i].prevState]]

TransitionPass(cs, t) == [i \in DOMAIN cs |-> TraceCube(cs[i], t)]

\* a variant that lets the offset grow without wrapping
NextFrameOffsetNoWrap(fo) == fo + PARAMS.level6.rippleSpeed

NextFrameOffset(fo) == (fo + PARAMS.level6.rippleSpeed) % RIPPLE_WRAP

\* what the properties below compare a frame's result with
Snapshot(cs) ==
    [i \in DOMAIN cs |->
        [value |-> cs[i].value, state |-> cs[i].state,
         prevState |-> cs[i].prevState, traceTime |-> cs[i].traceTime]]

\* a variant whose guard does not look at isPaused
updateWhilePaused(sigs, running, t) ==
    IF ~running
    THEN /\ justUpdated' = FALSE
         /\ justResized' = FALSE
         /\ lastKey' = ""
         /\ UNCHANGED <<cubes, frameOffset, frameData, normalizedData, reads,
                        views, matched, counts, frames, pre>>
    ELSE \E data \in sigs :
         \E st \in MappingPass({PassStart(cubes, data)}, 0, currentLevel,
                               frameOffset, rules, cols, rows) :
            /\ cubes' = TransitionPass(st.cs, t)
            /\ frameOffset' = NextFrameOffset(frameOffset)
            /\ frameData' = data
            /\ normalizedData' = st.data
            /\ reads' = st.rd
            /\ views' = st.views
            /\ matched' = st.matched
            /\ counts' = st.counts
            /\ frames' = frames + 1
            /\ pre' = [cubes |-> Snapshot(cubes), frameOffset |-> frameOffset,
                       level |-> currentLevel]
            /\ justUpdated' = TRUE
            /\ justResized' = FALSE
            /\ lastKey' = ""

\* update(), called at time t with isRunning = running, the analyser
\* delivering one of the buffers sigs
update(sigs, running, t) ==
    IF ~running \/ isPaused
    THEN /\ justUpdated' = FALSE
         /\ justResized' = FALSE
         /\ lastKey' = ""
         /\ UNCHANGED <<cubes, frameOffset, frameData, normalizedData, reads,
                        views, matched, counts, frames, pre>>
    ELSE \E data \in sigs :
         \E st \in MappingPass({PassStart(cubes, data)}, 0, currentLevel,
                               frameOffset, rules, cols, rows) :
            /\ cubes' = TransitionPass(st.cs, t)
            /\ frameOffset' = NextFrameOffset(frameOffset)
            /\ frameData' = data
            /\ normalizedData' = st.data
            /\ reads' = st.rd
            /\ views' = st.views
            /\ matched' = st.matched
            /\ counts' = st.counts
            /\ frames' = frames + 1
            /\ pre' = [cubes |-> Snapshot(cubes), frameOffset |-> frameOffset,
                       level |-> currentLevel]
            /\ justUpdated' = TRUE
            /\ justResized' = FALSE
            /\ lastKey' = ""

-----------------------------------------------------------------------------
(* Handlers *)

\* a variant that keeps the cubes that still fit in the new grid
resizeToKeepsFitting(vp) ==
    /\ cols' = vp[1] \div CELL_SIZE
    /\ rows' = vp[2] \div CELL_SIZE
    /\ cubes' =
          [i \in DOMAIN initGrid(vp[1] \div CELL_SIZE, vp[2] \div CELL_SIZE, currentLevel) |->
              IF i \in DOMAIN cubes THEN cubes[i]
              ELSE initGrid(vp[1] \div CELL_SIZE, vp[2] \div CELL_SIZE, currentLevel)[i]]
    /\ pre' = [cubes |-> Snapshot(cubes), frameOffset |-> frameOffset,
               level |-> currentLevel]
    /\ justUpdated' = FALSE
    /\ justResized' = TRUE
    /\ lastKey' = ""
    /\ UNCHANGED <<audioCtx, initPc, isRunning, isPaused, currentLevel,
                   frameOffset, rules, loops, now, frameData, normalizedData,
                   reads, views, matched, counts, frames, clickedIn>>

\* resize(), the handler of the window's resize and load events
resizeTo(vp) ==
    /\ cols' = vp[1] \div CELL_SIZE
    /\ rows' = vp[2] \div CELL_SIZE
    /\ cubes' = initGrid(vp[1] \div CELL_SIZE, vp[2] \div CELL_SIZE, currentLevel)
    /\ pre' = [cubes |-> Snapshot(cubes), frameOffset |-> frameOffset,
               level |-> currentLevel]
    /\ justUpdated' = FALSE
    /\ justResized' = TRUE
    /\ lastKey' = ""
    /\ UNCHANGED <<audioCtx, initPc, isRunning, isPaused, currentLevel,
                   frameOffset, rules, loops, now, frameData, normalizedData,
                   reads, views, matched, counts, frames, clickedIn>>

\* a resize event, the window taking one of the sizes vps
resizeAmong(vps) ==
    /\ inputs < MaxInputs
    /\ inputs' = inputs + 1
    /\ \E vp \in vps : resizeTo(vp)

resize == resizeAmong(Viewports)

\* the click handler; initAudio() runs up to its await.  A logged click
\* leaves its mark in clickedIn.
\* a variant that starts initAudio() again once the request has been answered
clickWithRestart(logged) ==
    /\ IF ~audioCtx \/ initPc \in {"done", "failed"}
       THEN /\ audioCtx' = TRUE
            /\ initPc' = "awaiting"
            /\ justUpdated' = FALSE
            /\ justResized' = FALSE
            /\ lastKey' = ""
       ELSE UNCHANGED <<audioCtx, initPc, justUpdated, justResized, lastKey>>
    /\ clickedIn' = (IF logged THEN clickedIn \cup {initPc} ELSE clickedIn)
    /\ UNCHANGED <<isRunning, isPaused, currentLevel, frameOffset, cols, rows,
                   cubes, rules, loops, now, frameData, normalizedData, reads,
                   views, matched, counts, frames, pre, inputs>>

clickWith(logged) ==
    /\ IF ~audioCtx
       THEN /\ audioCtx' = TRUE
            /\ initPc' = "awaiting"
            /\ justUpdated' = FALSE
            /\ justResized' = FALSE
            /\ lastKey' = ""
       ELSE UNCHANGED <<audioCtx, initPc, justUpdated, justResized, lastKey>>
    /\ clickedIn' = (IF logged THEN clickedIn \cup {initPc} ELSE clickedIn)
    /\ UNCHANGED <<isRunning, isPaused, currentLevel, frameOffset, cols, rows,
                   cubes, rules, loops, now, frameData, normalizedData, reads,
                   views, matched, counts, frames, pre, inputs>>

click == clickWith(FALSE)

\* getUserMedia resolves: the rest of initAudio(), whose loop() calls draw()
micGranted ==
    /\ initPc = "awaiting"
    /\ now < MaxFrames
    /\ initPc' = "done"
    /\ isRunning' = TRUE
    /\ loops' = loops + 1
    /\ now' = now + 1
    /\ update(Signals, TRUE, now + 1)
    /\ UNCHANGED <<audioCtx, isPaused, currentLevel, cols, rows, rules, inputs,
                   clickedIn>>

\* getUserMedia rejects: the catch of initAudio()
micDenied ==
    /\ initPc = "awaiting"
    /\ initPc' = "failed"
    /\ lastKey' = ""
    /\ UNCHANGED <<audioCtx, isRunning, isPaused, currentLevel, frameOffset,
                   cols, rows, cubes, rules, loops, now, frameData,
                   normalizedData, reads, views, matched, counts, frames, pre,
                   justUpdated, justResized, clickedIn, inputs>>

\* an animation frame of a running chain: draw() calls update(), then paints
drawWith(sigs) ==
    /\ loops > 0
    /\ now' = now + 1
    /\ update(sigs, isRunning, now + 1)
    /\ UNCHANGED <<audioCtx, initPc, isRunning, isPaused, currentLevel, cols,
                   rows, rules, loops, inputs, clickedIn>>

draw == now < MaxFrames /\ drawWith(Signals)

Perms(s) ==
    { p \in [1..Len(s) -> 1..Len(s)] : \A i, j \in 1..Len(s) : p[i] = p[j] => i = j }

\* a variant that may copy a rule over another
randomizeRulesWithRepeats ==
    { [i \in 1..Len(rules) |-> rules[f[i]]] : f \in [1..Len(rules) -> 1..Len(rules)] }

\* rules.sort(() => random() - 0.5): the comparator answers at random, so the
\* array may end in any order
randomizeRules == { [i \in 1..Len(rules) |-> rules[p[i]]] : p \in Perms(rules) }

\* a variant whose arrow keys do not wrap around
KeyLevelNoWrap(key, level) ==
    IF key \in {"0", "1", "2", "3", "4", "5"}
    THEN CHOOSE n \in 0..5 : ToString(n) = key
    ELSE IF key = "ArrowRight" THEN level + 1
    ELSE IF key = "ArrowLeft" THEN level - 1
    ELSE level

KeyLevel(key, level) ==
    IF key \in {"0", "1", "2", "3", "4", "5"}
    THEN CHOOSE n \in 0..5 : ToString(n) = key
    ELSE IF key = "ArrowRight" THEN (level + 1) % 6
    ELSE IF key = "ArrowLeft" THEN (level - 1 + 6) % 6
    ELSE level

\* a variant that rebuilds the grid when the level changes
keydownWithRebuild(keys, logged) ==
    /\ inputs < MaxInputs
    /\ inputs' = inputs + 1
    /\ \E key \in keys :
        /\ currentLevel' = KeyLevel(key, currentLevel)
        /\ rules' \in (IF key = "r" THEN randomizeRules ELSE {rules})
        /\ isPaused' = (IF key = "Space" THEN ~isPaused ELSE isPaused)
        /\ lastKey' = (IF logged THEN key ELSE "")
        /\ cubes' = (IF KeyLevel(key, currentLevel) # currentLevel
                     THEN initGrid(cols, rows, KeyLevel(key, currentLevel))
                     ELSE cubes)
    /\ justUpdated' = FALSE
    /\ justResized' = FALSE
    /\ UNCHANGED <<audioCtx, initPc, isRunning, frameOffset, cols, rows,
                   loops, now, frameData, normalizedData, reads, views,
                   matched, counts, frames, pre, clickedIn>>

\* the keydown handler, for a key of keys.  A logged key press leaves its
\* key in lastKey.
keydownWith(keys, logged) ==
    /\ inputs < MaxInputs
    /\ inputs' = inputs + 1
    /\ \E key \in keys :
        /\ currentLevel' = KeyLevel(key, currentLevel)
        /\ rules' \in (IF key = "r" THEN randomizeRules ELSE {rules})
        /\ isPaused' = (IF key = "Space" THEN ~isPaused ELSE isPaused)
        /\ lastKey' = (IF logged THEN key ELSE "")
    /\ justUpdated' = FALSE
    /\ justResized' = FALSE
    /\ UNCHANGED <<audioCtx, initPc, isRunning, frameOffset, cols, rows, cubes,
                   loops, now, frameData, normalizedData, reads, views,
                   matched, counts, frames, pre, clickedIn>>

keydownOf(keys) == keydownWith(keys, FALSE)

keydown == keydownOf(Keys)

Next ==
    \/ resize
    \/ click
    \/ micGranted
    \/ micDenied
    \/ draw
    \/ keydown

Spec == Init /\ [][Next]_vars

-----------------------------------------------------------------------------
(* Scenarios: the program some way into a run, on grids, rule lists and    *)
(* signals the main specification does not reach within its bounds         *)

\* the page after: load with viewport vp, a click, the microphone granted
\* with the level at first, whose frame found the buffer data, then the key
\* of the level next; rs is the rules array
AfterFirstFrame(vp, first, data, next, rs) ==
    LET nc == vp[1] \div CELL_SIZE
        nr == vp[2] \div CELL_SIZE
    IN  \E st \in MappingPass({PassStart(initGrid(nc, nr, 0), data)}, 0, first,
                              0, defaultRules, nc, nr) :
            /\ audioCtx = TRUE
            /\ initPc = "done"
            /\ isRunning = TRUE
            /\ isPaused = FALSE
            /\ currentLevel = next
            /\ frameOffset = NextFrameOffset(0)
            /\ cols = nc
            /\ rows = nr
            /\ cubes = TransitionPass(st.cs, 1)
            /\ rules = rs
            /\ loops = 1
            /\ now = 1
            /\ frameData = data
            /\ normalizedData = st.data
            /\ reads = st.rd
            /\ views = st.views
            /\ matched = st.matched
            /\ counts = st.counts
            /\ frames = 1
            /\ pre = [cubes |-> Snapshot(initGrid(nc, nr, 0)), frameOffset |-> 0,
                      level |-> first]
            /\ justUpdated = FALSE
            /\ justResized = FALSE
            /\ lastKey = ""
            /\ clickedIn = {}
            /\ inputs = 0

\* Grids.  A 3 x 3 and a 2 x 2 grid whose cubes a level-3 frame of a loud
\* signal has switched on or off at random, then level 5 on a signal that
\* meets no rule, so that the cubes stand still while neighbours are counted.
GridViewports == { <<75, 75>>, <<50, 50>> }

LoudSignal == [i \in 0..(frequencyBinCount - 1) |-> 900]

StillSignals == { [i \in 0..(frequencyBinCount - 1) |-> 200] }

InitGrid == \E vp \in GridViewports : AfterFirstFrame(vp, 3, LoudSignal, 5, defaultRules)

drawStill == now < MaxFrames /\ drawWith(StillSignals)

\* a frame of silence: the quiet rule switches every cube off
SilentSignal == [i \in 0..(frequencyBinCount - 1) |-> 0]

drawSilent == now < MaxFrames /\ drawWith({SilentSignal})

\* the window resized from one of the two grids to the other, or to the same
resizeGrid == resizeAmong(GridViewports)

NextGrid == drawStill \/ drawSilent \/ resizeGrid

SpecGrid == InitGrid /\ [][NextGrid]_vars

\* the buffer of the first frame: at level 0 it leaves the first cube on and
\* the second off, at level 1 both on, with values 0.9 and 0
LoudQuietSignal ==
    [i \in 0..(frequencyBinCount - 1) |-> IF i % 2 = 0 THEN 900 ELSE 0]

\* Clicks.  The page after load; clicks, each logged with the point of
\* initAudio() it arrived at, the answer to the microphone request, frames.
clickLogged == clickWith(TRUE)

NextClicks == clickLogged \/ micGranted \/ micDenied \/ draw

SpecClicks == Init /\ [][NextClicks]_vars

\* Keys.  The program running at level 0 after a first frame, then key
\* presses, each logged, frames and resizes.
InitKeys ==
    \E vp \in Viewports : AfterFirstFrame(vp, 0, LoudQuietSignal, 0, defaultRules)

keydownLogged == keydownWith(Keys, TRUE)

NextKeys == draw \/ keydownLogged \/ resize

SpecKeys == InitKeys /\ [][NextKeys]_vars

\* Rule lists.  The rules array holds two rules over the conditions and the
\* actions the source defines; with the conditions of the default rules no
\* two rules hold for the same cube, with these they may.  "invert" is an
\* action the source names but applyAction has no case for.
RulePool ==
    { [condition |-> c, action |-> a] :
        c \in {"loud", "flip"},
        a \in {"on", "off", "flip", "scatter", "decay", "invert"} }

RuleLists ==
    { rs \in { <<r1, r2>> : r1 \in RulePool, r2 \in RulePool } :
        rs[1].action # rs[2].action }

RuleViewports == { <<50, 30>> }

InitRules ==
    \E vp \in RuleViewports : \E rs \in RuleLists : \E first \in {0, 1} :
        AfterFirstFrame(vp, first, LoudQuietSignal, 5, rs)

\* the key R
reorder == keydownOf({"r"})

NextRules == draw \/ reorder

SpecRules == InitRules /\ [][NextRules]_vars

\* Orders.  The default rules in any of their six orders, at level 5 after a
\* first frame: frames and the key R.
RuleOrders ==
    { [i \in 1..Len(defaultRules) |-> defaultRules[p[i]]] : p \in Perms(defaultRules) }

InitOrder ==
    \E vp \in Viewports : \E rs \in RuleOrders : \E first \in {0, 1} :
        AfterFirstFrame(vp, first, LoudQuietSignal, 5, rs)

NextOrder == draw \/ reorder

SpecOrder == InitOrder /\ [][NextOrder]_vars

\* A held signal.  One cube at level 2; the buffer of the first level-2 frame
\* is any, every later frame finds the same buffer again.
HeldViewports == { <<30, 30>> }

InitHeld ==
    \E vp \in HeldViewports : \E data \in Signals :
        AfterFirstFrame(vp, 0, data, 2, defaultRules)

drawHeld ==
    /\ now < MaxHeldFrames
    /\ drawWith(IF frames = 1 THEN Signals ELSE {frameData})

NextHeld == drawHeld

SpecHeld == InitHeld /\ [][NextHeld]_vars

-----------------------------------------------------------------------------
(* Properties *)

\* update() has just run past its guard: cubes, frameData, reads, views and
\* matched are as it left them, pre is what it found, now its timestamp
Advanced == justUpdated

\* C1: in every advance() a cell's lastOffTimestamp (traceTime) becomes that
\* frame's timestamp if and only if the cell was on at the end of the previous
\* frame and is off after this frame's mapping pass; in every other case it is
\* left as it was.
C1_TraceOnlyOnOnToOff ==
    Advanced =>
        \A i \in DOMAIN cubes :
            cubes[i].traceTime =
                (IF pre.cubes[i].state /\ ~cubes[i].state THEN now
                 ELSE pre.cubes[i].traceTime)

\* a cell that was on is off after the frame and carries the frame's time,
\* while a cell that was off and stays off carries none
C1_Witness ==
    /\ Advanced
    /\ \E i, j \in DOMAIN cubes :
          /\ pre.cubes[i].state /\ ~cubes[i].state /\ cubes[i].traceTime = now
          /\ ~pre.cubes[j].state /\ ~cubes[j].state /\ cubes[j].traceTime = 0

\* the sample of cell i in the latest frame: signal[i mod n]
Target(i) == frameData[i % Length(frameData)]

\* cube i as the rule loop of the latest update() found it
PreCube(i) ==
    [cubes[i] EXCEPT !.value = pre.cubes[i].value,
                     !.state = pre.cubes[i].state,
                     !.prevState = pre.cubes[i].prevState,
                     !.prevValue = pre.cubes[i].value,
                     !.traceTime = pre.cubes[i].traceTime]

\* the condition of rule r held for cube i whatever random() returned / for
\* some value random() may return
CondMust(r, i) ==
    \A u \in ConditionDraws(r) : condition(r, PreCube(i), views[i], counts[i], u)
CondMay(r, i) ==
    \E u \in ConditionDraws(r) : condition(r, PreCube(i), views[i], counts[i], u)

\* cube i left the mapping pass as the action does to PreCube(i)
AppliedTo(action, i) ==
    \E v \in ActionDraws(action) :
        LET c == applyAction(action, PreCube(i), v)
        IN  cubes[i].state = c.state /\ cubes[i].value = c.value

SwapRules(rs, a, b) ==
    [k \in 1..Len(rs) |-> IF k = a THEN rs[b] ELSE IF k = b THEN rs[a] ELSE rs[k]]

\* C2: at level 5 the rule list is scanned in order and the scan stops at the
\* first rule whose condition holds: only that rule's action is applied to the
\* cell in that frame.  When the conditions of two rules both hold for a cell,
\* the earlier one's action is the one applied, and with the two rules
\* exchanged it is the other's.
C2_FirstMatchWins ==
    Advanced /\ currentLevel = 5 =>
        \A i \in DOMAIN cubes :
            /\ matched[i] \in 0..Len(rules)
            /\ \A j \in 1..Len(rules) :
                  (matched[i] = 0 \/ j < matched[i]) => ~CondMust(rules[j], i)
            /\ matched[i] > 0 =>
                  /\ CondMay(rules[matched[i]], i)
                  /\ AppliedTo(rules[matched[i]].action, i)
            /\ \A a, b \in 1..Len(rules) :
                  ( /\ a < b
                    /\ CondMust(rules[a], i)
                    /\ CondMust(rules[b], i)
                    /\ \A j \in 1..(a - 1) : ~CondMay(rules[j], i) ) =>
                      /\ matched[i] = a
                      /\ \A o \in RuleLoop(SwapRules(rules, a, b), 1, PreCube(i),
                                           views[i], counts[i]) :
                            /\ o.matched = a
                            /\ \E v \in ActionDraws(rules[b].action) :
                                  o.cube = applyAction(rules[b].action, PreCube(i), v)

\* both rules held for a cube that was off: the first, "on", was applied and
\* the cube is on, where the second, "off", would have left it off
C2_Witness ==
    /\ Advanced
    /\ currentLevel = 5
    /\ \E i \in DOMAIN cubes :
          /\ CondMust(rules[1], i)
          /\ CondMust(rules[2], i)
          /\ rules[1].action = "on"
          /\ rules[2].action = "off"
          /\ matched[i] = 1
          /\ ~pre.cubes[i].state
          /\ cubes[i].state

\* C3: at level 5, a cell for which no rule's condition holds keeps its state
\* and its value through the mapping pass (no default action); a loud or a
\* quiet cell is never such a cell.
C3_NoMatchNoChange ==
    Advanced /\ currentLevel = 5 =>
        \A i \in DOMAIN cubes :
            matched[i] = 0 =>
                /\ cubes[i].state = pre.cubes[i].state
                /\ cubes[i].value = pre.cubes[i].value
                /\ \A k \in 1..Len(rules) :
                      \E u \in ConditionDraws(rules[k]) :
                          ~condition(rules[k], cubes[i], views[i], 0, u)

\* a cell that was on, met no rule in a level-5 frame, and is still on
C3_Witness ==
    /\ Advanced
    /\ currentLevel = 5
    /\ \E i \in DOMAIN cubes :
          /\ matched[i] = 0
          /\ pre.cubes[i].state
          /\ cubes[i].state
          /\ views[i][i % Length(views[i])] \in Samples

\* C4: every index update() uses on the signal (the cell's wrapped index, the
\* random index of level 4, the ripple-shifted index of level 5) lies in
\* [0, length), whether the grid has more cells than samples or fewer.
C4_IndicesInRange ==
    Advanced => \A idx \in reads : idx >= 0 /\ idx < Length(frameData)

\* a level-5 frame with a nonzero frame offset on a grid with more cells than
\* samples
C4_Witness ==
    /\ Advanced
    /\ currentLevel = 5
    /\ pre.frameOffset > 0
    /\ Cardinality(DOMAIN cubes) > Length(frameData)
    /\ reads = DOMAIN frameData

\* C5: at level 0, after advance() every cell i has state = (signal[i mod n] >
\* T0) and value = signal[i mod n], whatever the cell held before.
C5_Level0Memoryless ==
    Advanced /\ currentLevel = 0 =>
        \A i \in DOMAIN cubes :
            /\ cubes[i].state =
                  (frameData[i % Length(frameData)] > PARAMS.level0.threshold)
            /\ cubes[i].value = frameData[i % Length(frameData)]

\* a level-0 frame switched off a cell that was on and switched on a cell
\* that was off
C5_Witness ==
    /\ Advanced
    /\ currentLevel = 0
    /\ \E i, j \in DOMAIN cubes :
          /\ pre.cubes[i].state /\ ~cubes[i].state
          /\ ~pre.cubes[j].state /\ cubes[j].state

\* C6: the on->off comparison of advance() reads the state every cell has
\* after the mapping pass, and at the end of every advance() previousState =
\* state for every cell of the grid.
C6_ShadowRefreshedAfterMapping ==
    /\ \A i \in DOMAIN cubes : cubes[i].prevState = cubes[i].state
    /\ Advanced =>
          \A i \in DOMAIN cubes :
              /\ (pre.cubes[i].prevState /\ ~cubes[i].state) => cubes[i].traceTime = now
              /\ cubes[i].state => cubes[i].traceTime = pre.cubes[i].traceTime

\* after a level-5 frame, a cell the rule engine switched off carries the
\* frame's time, beside a cell that is on
C6_Witness ==
    /\ Advanced
    /\ currentLevel = 5
    /\ \E i, j \in DOMAIN cubes :
          /\ ~cubes[i].state /\ ~cubes[i].prevState /\ cubes[i].traceTime = now
          /\ cubes[j].state /\ cubes[j].prevState

\* C7: at level 5 the array handed to the conditions of cell i equals the
\* frame's signal at every index but i mod n, where it holds
\* signal[(i + frameOffset) mod n]; building it leaves the signal buffer as it
\* was, so no cell's view depends on another cell's.
C7_OverrideViewLocal ==
    Advanced /\ currentLevel = 5 =>
        /\ normalizedData = frameData
        /\ \A i \in DOMAIN cubes :
              views[i] =
                [j \in DOMAIN frameData |->
                    IF j = i % Length(frameData)
                    THEN frameData[(i + pre.frameOffset) % Length(frameData)]
                    ELSE frameData[j]]

\* a level-5 frame in which the views of two cells differ from the signal and
\* from each other
C7_Witness ==
    /\ Advanced
    /\ currentLevel = 5
    /\ \E i, j \in DOMAIN cubes :
          views[i] # frameData /\ views[j] # frameData /\ views[i] # views[j]

\* C8: after each advance() frameOffset = (frameOffset before + rippleSpeed)
\* mod signal.length, so frameOffset is always in [0, signal.length).
C8_FrameOffsetWraps ==
    /\ Advanced =>
          frameOffset =
              (pre.frameOffset + PARAMS.level6.rippleSpeed) % Length(frameData)
    /\ frameOffset >= 0
    /\ frames > 0 => frameOffset < Length(frameData)

\* the offset has wrapped back to 0
C8_Witness == Advanced /\ pre.frameOffset > 0 /\ frameOffset = 0

\* C11: at level 2, after a frame every cell has state = (value > T2) with
\* value the value smoothed in that same frame: lerp of the value before the
\* frame and the sample; not the raw sample, not the value before the frame.
C11_Level2ThresholdOnSmoothed ==
    Advanced /\ currentLevel = 2 =>
        \A i \in DOMAIN cubes :
            /\ cubes[i].value =
                  RoundDiv((ONE - PARAMS.level2.smoothing) * pre.cubes[i].value
                               + PARAMS.level2.smoothing * Target(i), ONE)
            /\ cubes[i].state = (cubes[i].value > PARAMS.level2.threshold)

\* one cell is on although its raw sample is below the threshold, another is
\* on although its value before the frame was
C11_Witness ==
    /\ Advanced
    /\ currentLevel = 2
    /\ \E i, j \in DOMAIN cubes :
          /\ cubes[i].state
          /\ ~(Target(i) > PARAMS.level2.threshold)
          /\ cubes[j].state
          /\ ~(pre.cubes[j].value > PARAMS.level2.threshold)

\* C12: at level 1, after a frame every cell is on and its value is
\* signal[i mod n], for every signal, an all-zero one included.
C12_Level1AlwaysOn ==
    Advanced /\ currentLevel = 1 =>
        \A i \in DOMAIN cubes :
            /\ cubes[i].state
            /\ cubes[i].value = Target(i)

\* a level-1 frame of silence switched on cells that were off
C12_Witness ==
    /\ Advanced
    /\ currentLevel = 1
    /\ \A k \in DOMAIN frameData : frameData[k] = 0
    /\ \E i \in DOMAIN cubes : ~pre.cubes[i].state /\ cubes[i].state

\* the states a level-4 frame may give cell i
Level4States(i) ==
    { Level4(PreCube(i), frameData, u).state : u \in RandomDraws }

\* C13: at level 4, after a frame every cell's state is (signal[j] > T4) for
\* an index j in [0, length) drawn per cell, any index whatever the cell's
\* own; so with every sample above T4 all cells are on and with none above
\* all are off, whatever they were before.
C13_Level4RandomSample ==
    Advanced /\ currentLevel = 4 =>
        /\ \A i \in DOMAIN cubes :
              /\ \E j \in DOMAIN frameData :
                    cubes[i].state = (frameData[j] > PARAMS.level4.threshold)
              /\ Level4States(i) =
                    { frameData[j] > PARAMS.level4.threshold : j \in DOMAIN frameData }
        /\ (\A j \in DOMAIN frameData : frameData[j] > PARAMS.level4.threshold) =>
              \A i \in DOMAIN cubes : cubes[i].state
        /\ (\A j \in DOMAIN frameData : ~(frameData[j] > PARAMS.level4.threshold)) =>
              \A i \in DOMAIN cubes : ~cubes[i].state

\* a level-4 frame left a cell on whose own sample is silence, and a cell
\* off whose own sample is loud
C13_Witness ==
    /\ Advanced
    /\ currentLevel = 4
    /\ \E i, j \in DOMAIN cubes :
          /\ cubes[i].state /\ Target(i) = 0
          /\ ~cubes[j].state /\ Target(j) > PARAMS.level4.threshold

\* C14: at level 3, a cell's state after a frame is u < d * P3 for a draw u
\* in [0,1), whatever the cell was before: a cell whose sample is 0 is off
\* after the frame, a cell with d * P3 >= 1 is on.
C14_Level3FreshDraw ==
    Advanced /\ currentLevel = 3 =>
        \A i \in DOMAIN cubes :
            /\ \E u \in 0..(ONE - 1) :
                  cubes[i].state = (u * ONE < Target(i) * PARAMS.level3.probabilityScale)
            /\ Target(i) = 0 => ~cubes[i].state
            /\ Target(i) * PARAMS.level3.probabilityScale >= ONE * ONE => cubes[i].state
            /\ cubes[i].value = pre.cubes[i].value

\* a level-3 frame switched off a cell that was on and whose sample is 0,
\* and switched off another that was on and whose sample is loud
C14_Witness ==
    /\ Advanced
    /\ currentLevel = 3
    /\ \E i, j \in DOMAIN cubes :
          /\ pre.cubes[i].state /\ ~cubes[i].state /\ Target(i) = 0
          /\ pre.cubes[j].state /\ ~cubes[j].state /\ Target(j) > 0

\* the action the latest level-5 frame applied to cell i, "" if none
ActionOf(i) == IF matched[i] = 0 THEN "" ELSE rules[matched[i]].action

\* C15: at level 5 a frame never assigns a cell's value from the signal: the
\* value after the frame differs from the value before only if the matched
\* rule's action is decay; under rules with the actions on, off, flip or
\* scatter every value is unchanged.
C15_Level5KeepsValue ==
    Advanced /\ currentLevel = 5 =>
        \A i \in DOMAIN cubes :
            /\ cubes[i].value # pre.cubes[i].value => ActionOf(i) = "decay"
            /\ ActionOf(i) \in {"", "on", "off", "flip", "scatter"} =>
                  cubes[i].value = pre.cubes[i].value

\* a level-5 frame changed the state of a cell by a rule other than decay
\* and left its value, which is not 0 and not the cell's sample
C15_Witness ==
    /\ Advanced
    /\ currentLevel = 5
    /\ \E i \in DOMAIN cubes :
          /\ ActionOf(i) \in {"on", "off", "flip", "scatter"}
          /\ cubes[i].state # pre.cubes[i].state
          /\ cubes[i].value = pre.cubes[i].value
          /\ cubes[i].value # Target(i)
          /\ cubes[i].value # 0

\* C16: applyAction changes only the target cell and only its state for on,
\* off and flip: on gives true, off false, flip the negation; on and off
\* are idempotent, flip twice restores the state, and an action name outside
\* the known set changes nothing.
C16_OnOffFlip ==
    Advanced /\ currentLevel = 5 =>
        \A i \in DOMAIN cubes :
            LET c == PreCube(i)
            IN  /\ ActionOf(i) = "on" => cubes[i].state
                /\ ActionOf(i) = "off" => ~cubes[i].state
                /\ ActionOf(i) = "flip" => cubes[i].state = ~pre.cubes[i].state
                /\ ActionOf(i) \in {"", "invert"} =>
                      cubes[i].state = pre.cubes[i].state
                /\ ActionOf(i) \in {"on", "off", "flip", "invert"} =>
                      cubes[i].value = pre.cubes[i].value
                /\ \A a \in {"on", "off", "flip"} :
                      [applyAction(a, c, 0) EXCEPT !.state = c.state] = c
                /\ \A a \in {"on", "off"} :
                      applyAction(a, applyAction(a, c, 0), 0) = applyAction(a, c, 0)
                /\ applyAction("flip", applyAction("flip", c, 0), 0) = c
                /\ \A a \in {"invert", "propagate", ""} : applyAction(a, c, 0) = c

\* in one frame a cell that was on was flipped off and a cell met the
\* action without a case and stayed as it was
C16_Witness ==
    /\ Advanced
    /\ currentLevel = 5
    /\ \E i, j \in DOMAIN cubes :
          /\ ActionOf(i) = "flip" /\ pre.cubes[i].state /\ ~cubes[i].state
          /\ ActionOf(j) = "invert" /\ pre.cubes[j].state /\ cubes[j].state

\* C17: decay multiplies the cell's value by 0.9 and forces state to false
\* exactly when the resulting value is below 0.05; at or above the floor the
\* state is left as it was.
C17_Decay ==
    Advanced /\ currentLevel = 5 =>
        \A i \in DOMAIN cubes :
            ActionOf(i) = "decay" =>
                /\ cubes[i].value = RoundDiv(pre.cubes[i].value * DECAY_FACTOR, ONE)
                /\ cubes[i].value < DECAY_FLOOR => ~cubes[i].state
                /\ cubes[i].value >= DECAY_FLOOR =>
                      cubes[i].state = pre.cubes[i].state

\* in one frame decay took a value from 0.9 to 0.81 and left that cell on,
\* and switched off a cell that was on with a value below the floor
C17_Witness ==
    /\ Advanced
    /\ currentLevel = 5
    /\ \E i, j \in DOMAIN cubes :
          /\ ActionOf(i) = "decay" /\ pre.cubes[i].state /\ cubes[i].state
          /\ cubes[i].value = 810
          /\ ActionOf(j) = "decay" /\ pre.cubes[j].state /\ ~cubes[j].state
          /\ cubes[j].value < DECAY_FLOOR

\* the number of positions of the list rs that hold rule r
Copies(rs, r) == Cardinality({ k \in DOMAIN rs : rs[k] = r })

\* C18: the reorder operation (randomizeRules, key R) only permutes the rule
\* list: after any number of reorders the list holds exactly the same rules,
\* each with its condition and action, none added, dropped or duplicated.
C18_ReorderPermutes ==
    /\ Len(rules) = Len(defaultRules)
    /\ \A k \in DOMAIN rules : Copies(defaultRules, rules[k]) = Copies(rules, rules[k])
    /\ \A k \in DOMAIN defaultRules :
          Copies(rules, defaultRules[k]) = Copies(defaultRules, defaultRules[k])

\* a frame ran on a rule list in which every rule has left its place
C18_Witness ==
    /\ Advanced
    /\ \A k \in DOMAIN rules : rules[k] # defaultRules[k]

\* C19: resize rebuilds the whole cell array at the new dimensions:
\* afterwards every cell has value 0, state false, prevState false,
\* prevValue 0 and traceTime 0, whatever the grid held before, and the
\* active level is the one before the resize.
C19_ResizeRebuilds ==
    justResized =>
        /\ DOMAIN cubes = 0..(rows * cols - 1)
        /\ \A i \in DOMAIN cubes :
              /\ cubes[i].value = 0
              /\ ~cubes[i].state
              /\ ~cubes[i].prevState
              /\ cubes[i].prevValue = 0
              /\ cubes[i].traceTime = 0
              /\ cubes[i].level = currentLevel
        /\ currentLevel = pre.level

\* at level 5 a 3 x 3 grid holding cubes that are on and cubes with a trace
\* time was resized to 2 x 2
C19_Witness ==
    /\ justResized
    /\ currentLevel = 5
    /\ Cardinality(DOMAIN pre.cubes) = 9
    /\ Cardinality(DOMAIN cubes) = 4
    /\ \E i \in DOMAIN cubes : pre.cubes[i].traceTime > 0
    /\ frames = 2

\* C20: in every reachable state the cell array has exactly rows * cols
\* cells, the cell at position k has index k, column k mod cols and row
\* floor(k / cols), so index = row * cols + column and every grid position
\* holds exactly one cell; a frame never adds, removes or reorders cells.
C20_RowMajorGrid ==
    /\ DOMAIN cubes = 0..(rows * cols - 1)
    /\ \A k \in DOMAIN cubes :
          /\ cubes[k].index = k
          /\ cubes[k].c = k % cols
          /\ cubes[k].r = k \div cols
          /\ cubes[k].index = cubes[k].r * cols + cubes[k].c
    /\ \A rr \in 0..(rows - 1) : \A cc \in 0..(cols - 1) :
          Cardinality({ k \in DOMAIN cubes : cubes[k].r = rr /\ cubes[k].c = cc }) = 1
    /\ Advanced => DOMAIN cubes = DOMAIN pre.cubes

\* a frame has run on the 3 x 3 grid built by a resize: the cell at
\* position 5 sits in row 1, column 2
C20_Witness ==
    /\ Advanced
    /\ inputs > 0
    /\ cols = 3
    /\ rows = 3
    /\ cubes[5].r = 1
    /\ cubes[5].c = 2

\* the cells next to cell i in the grid, by row and column of the index
Adjacent(i, j) ==
    LET ri == i \div cols
        ci == i % cols
        rj == j \div cols
        cj == j % cols
    IN  \/ ri = rj /\ (ci = cj + 1 \/ cj = ci + 1)
        \/ ci = cj /\ (ri = rj + 1 \/ rj = ri + 1)

OnNextTo(i) == Cardinality({ j \in DOMAIN cubes : Adjacent(i, j) /\ cubes[j].state })

\* C9: the neighbour count of a cell is the number of its orthogonally
\* adjacent cells inside the grid that are on: an integer in [0, 4], with
\* out-of-bounds neighbours left out and no wraparound; and it is the count
\* a level-5 frame computes for the cell when the frame changes no cell.
C9_NeighborCount ==
    /\ \A i \in DOMAIN cubes :
          /\ getNeighbors(cubes, cols, rows, cubes[i]) = OnNextTo(i)
          /\ OnNextTo(i) \in 0..4
    /\ (Advanced /\ currentLevel = 5 /\ Snapshot(cubes) = pre.cubes) =>
          \A i \in DOMAIN cubes : counts[i] = OnNextTo(i)

\* a 3 x 3 grid with the four edge cells on and the corners off: the centre
\* counted 4, a corner 2
C9_Witness ==
    /\ Advanced
    /\ currentLevel = 5
    /\ cols = 3
    /\ rows = 3
    /\ \A i \in {1, 3, 5, 7} : cubes[i].state
    /\ \A i \in {0, 2, 6, 8} : ~cubes[i].state
    /\ counts[4] = 4
    /\ counts[0] = 2

Dist(a, b) == IF a >= b THEN a - b ELSE b - a

\* value did not move to the other side of the target
NoCrossing(i) ==
    /\ pre.cubes[i].value <= Target(i) => cubes[i].value <= Target(i)
    /\ pre.cubes[i].value >= Target(i) => cubes[i].value >= Target(i)

\* C10 as stated: at level 2, in each frame either value is the target
\* already or |value - d| after the frame is strictly smaller than before,
\* and value never crosses d.
C10_StrictlyCloser ==
    Advanced /\ currentLevel = 2 =>
        \A i \in DOMAIN cubes :
            /\ NoCrossing(i)
            /\ \/ pre.cubes[i].value = Target(i)
               \/ Dist(cubes[i].value, Target(i)) < Dist(pre.cubes[i].value, Target(i))

\* C10, amended: at level 2, in each frame |value - d| does not grow and
\* value never crosses d (value is carried over, never reset); the distance
\* shrinks strictly while the step alpha * (d - value) is more than half the
\* spacing of representable values, and value may come to rest short of d.
C10_NeverFarther ==
    Advanced /\ currentLevel = 2 =>
        \A i \in DOMAIN cubes :
            /\ NoCrossing(i)
            /\ Dist(cubes[i].value, Target(i)) <= Dist(pre.cubes[i].value, Target(i))
            /\ 2 * PARAMS.level2.smoothing * Dist(pre.cubes[i].value, Target(i)) > ONE =>
                  Dist(cubes[i].value, Target(i)) < Dist(pre.cubes[i].value, Target(i))

\* under a held signal value came close to the target, and a frame left it
\* where it was, short of the target
C10_Witness ==
    /\ Advanced
    /\ currentLevel = 2
    /\ frames > 3
    /\ \E i \in DOMAIN cubes :
          /\ cubes[i].value # Target(i)
          /\ cubes[i].value = pre.cubes[i].value
          /\ cubes[i].value # 0

C24_OnlyUpdateWritesCells ==
    [][ /\ lastKey' # "" => cubes' = cubes
        /\ cubes' # cubes =>
              \/ justUpdated' /\ now' # now /\ ~isPaused
              \/ justResized' ]_vars

\* the rules were reordered over a grid that holds a cube that is on with
\* value 0.9, and the cube is still so
C24_Witness ==
    /\ lastKey = "r"
    /\ rules # defaultRules
    /\ \E i \in DOMAIN cubes : cubes[i].state /\ cubes[i].value = 900

\* C26: after every advance(), at every level, each cell's prevValue equals
\* the value the cell had immediately before that advance() began.
C26_PrevValueIsValueBefore ==
    Advanced =>
        \A i \in DOMAIN cubes : cubes[i].prevValue = pre.cubes[i].value

\* a frame found a cell with a nonzero value and left it with another value
C26_Witness ==
    /\ Advanced
    /\ \E i \in DOMAIN cubes :
          /\ pre.cubes[i].value > 0
          /\ cubes[i].prevValue = pre.cubes[i].value
          /\ cubes[i].value # cubes[i].prevValue

\* C27: a tap (click/touch on the page) cycles the active level to the next
\* level.
C27_TapCyclesLevel ==
    [][clickedIn' # clickedIn => currentLevel' = (currentLevel + 1) % 6]_vars

\* C30: for any sequence of clicks, including clicks that arrive while the
\* microphone request is pending, audio initialisation runs at most once and
\* the frame loop is started at most once; if the request fails, isRunning
\* stays false forever and no later click starts the loop or changes a cell.
C30_InitOnceFailureFinal ==
    /\ [](/\ loops <= 1
          /\ (loops = 1) = (initPc = "done")
          /\ isRunning = (initPc = "done")
          /\ audioCtx = (initPc # "idle")
          /\ (initPc = "failed" => frames = 0 /\ now = 0))
    /\ [][ /\ initPc \in {"done", "failed"} => initPc' = initPc
           /\ initPc = "failed" => ~isRunning' /\ loops' = 0 /\ cubes' = cubes
           /\ clickedIn' # clickedIn =>
                 /\ cubes' = cubes
                 /\ loops' = loops
                 /\ isRunning' = isRunning ]_vars

\* clicks arrived before the request, while it was pending and after it was
\* granted, and one loop runs and has executed frames
C30_Witness ==
    /\ initPc = "done"
    /\ clickedIn = {"idle", "awaiting", "done"}
    /\ loops = 1
    /\ isRunning
    /\ frames = 2

\* the state of cell j that the mapping pass shows to cell i: the one cell j
\* received in this frame if the pass has been at j already, else the one it
\* had when the frame began
SeenBy(i, j) == IF j < i THEN cubes[j].state ELSE pre.cubes[j].state

\* C28: at level 5 the neighbour count given to a cell's rule conditions is
\* taken during the single index-order mapping pass: the up and left
\* neighbours (lower index) count with the state they received in the
\* current frame, the down and right neighbours (higher index) with the state
\* they had at the end of the previous frame.
C28_CountMidPass ==
    Advanced /\ currentLevel = 5 =>
        \A i \in DOMAIN cubes :
            counts[i] = Cardinality({ j \in DOMAIN cubes : Adjacent(i, j) /\ SeenBy(i, j) })

\* a silent frame on a 3 x 3 grid whose four edge cells were on: the centre
\* counted its right and lower neighbours only, the upper and the left one
\* being off by then
C28_Witness ==
    /\ Advanced
    /\ currentLevel = 5
    /\ cols = 3
    /\ rows = 3
    /\ \A j \in {1, 3, 5, 7} : pre.cubes[j].state
    /\ \A j \in DOMAIN cubes : ~cubes[j].state
    /\ counts[4] = 2

\* a one-sample buffer holding s, and a cube reading it
OneSample(s) == [k \in 0..0 |-> s]
ProbeCube == initGrid(1, 1, 5)[0]

\* the rules of rs whose condition holds for sample s when random() returns u
HoldingFor(rs, s, u) ==
    { k \in 1..Len(rs) : condition(rs[k], ProbeCube, OneSample(s), 0, u) }

\* the position in rs of the first rule whose condition holds for cube i as
\* the latest frame found it, random() returning u (0: none), and the state
\* the cube then leaves the rule loop with
FirstHolding(rs, i, u) ==
    LET H == { k \in 1..Len(rs) : condition(rs[k], PreCube(i), views[i], counts[i], u) }
    IN  IF H = {} THEN 0 ELSE CHOOSE k \in H : \A m \in H : k <= m

StateUnder(rs, i, u) ==
    IF FirstHolding(rs, i, u) = 0 THEN PreCube(i).state
    ELSE applyAction(rs[FirstHolding(rs, i, u)].action, PreCube(i), 0).state

\* C29: with the default level-6 parameters the conditions of the three
\* default rules are pairwise mutually exclusive for every sample value in
\* [0,1], so the state every cell receives in a level-5 frame is the same
\* under all six orderings of the rule list, for the same random draws.
\* (The first part does not depend on the state; it is evaluated in the
\* states that follow the first frame.)
C29_DefaultRulesOrderFree ==
    /\ frames = 1 =>
          \A s \in 0..ONE : \A u \in RandomDraws :
              Cardinality(HoldingFor(defaultRules, s, u)) <= 1
    /\ (Advanced /\ currentLevel = 5) =>
          \A i \in DOMAIN cubes :
              /\ \E u \in RandomDraws :
                    /\ matched[i] = FirstHolding(rules, i, u)
                    /\ cubes[i].state = StateUnder(rules, i, u)
              /\ \A u \in RandomDraws : \A rs \in RuleOrders :
                    StateUnder(rs, i, u) = StateUnder(rules, i, u)

\* a level-5 frame under a list that has the flip rule first: the flip rule
\* changed the state of one cell, and a rule behind it that of another
C29_Witness ==
    /\ Advanced
    /\ currentLevel = 5
    /\ rules[1].condition = "flip"
    /\ \E i, j \in DOMAIN cubes :
          /\ matched[i] = 1
          /\ cubes[i].state # pre.cubes[i].state
          /\ matched[j] > 1
          /\ cubes[j].state # pre.cubes[j].state

====
